---- MODULE Spec2Model ----
(***************************************************************************)
(* Model of ddproc.api.Processor (src/ddproc/api.py): the pipeline         *)
(* load() -> replace() -> extract() over an archive of named JSON entries  *)
(* and an optional participant replacement table.                          *)
(*                                                                         *)
(* Strings are TLA+ strings; character i of s is SubSeq(s, i, i).  They     *)
(* hold the characters up to U+00FF.                                       *)
(***************************************************************************)
EXTENDS Naturals, Sequences, FiniteSets, TLC

VARIABLES archive, replacement, metadata, new_metadata, data, tables, dfs,
          pc, i, calls, fault

vars == <<archive, replacement, metadata, new_metadata, data, tables, dfs,
          pc, i, calls, fault>>

(***************************************************************************)
(* Bounds of the model.                                                    *)
(***************************************************************************)
\* Largest number of entries in the archive.
MaxArchive == 2
\* Largest number of replace() calls: the one of __init__ and the caller's.
MaxCalls == 2

(***************************************************************************)
(* Characters and the character classes of Python's re module.             *)
(***************************************************************************)
Ch(s, p) == SubSeq(s, p, p)

\* The characters of the string s.
CharsOf(s) == {Ch(s, k) : k \in 1..Len(s)}

\* The decimal digits.  A string of the model holds characters up to U+00FF,
\* and there the digits of \d are the ASCII ones.
Digits == CharsOf("0123456789")

\* The cased letters up to U+00FF, each upper-case letter above its lower-case
\* form.
UpperChars == "ABCDEFGHIJKLMNOPQRSTUVWXYZÀÁÂÃÄÅÆÇÈÉÊËÌÍÎÏÐÑÒÓÔÕÖØÙÚÛÜÝÞ"

LowerChars == "abcdefghijklmnopqrstuvwxyzàáâãäåæçèéêëìíîïðñòóôõöøùúûüýþ"

\* The other alphanumeric characters up to U+00FF: letters without case
\* partner there, superscript digits and fractions.
OtherWordChars == "ª²³µ¹º¼½¾ßÿ"

UpperToLower ==
    [c \in CharsOf(UpperChars) |->
        Ch(LowerChars, CHOOSE k \in 1..Len(UpperChars) : Ch(UpperChars, k) = c)]

WordChars ==
    Digits \cup CharsOf(UpperChars) \cup CharsOf(LowerChars)
           \cup CharsOf(OtherWordChars) \cup {"_"}

\* \d of the patterns (a str pattern: the Unicode decimal digits).
IsDigit(c) == c \in Digits

\* \w of the patterns (a str pattern: the Unicode alphanumerics and _).
IsWord(c) == c \in WordChars

\* . of the patterns: any character but a newline.
IsDot(c) == c # "\n"

\* str.lower() of line 73.
RECURSIVE Lower(_)
Lower(s) ==
    IF s = "" THEN ""
    ELSE LET c == Ch(s, 1)
         IN  (IF c \in DOMAIN UpperToLower THEN UpperToLower[c] ELSE c)
               \o Lower(SubSeq(s, 2, Len(s)))

\* The text lit stands in s at position p.
StartsAt(s, p, lit) ==
    /\ p + Len(lit) <= Len(s) + 1
    /\ SubSeq(s, p, p + Len(lit) - 1) = lit

\* Length of the longest run of digits of s that starts at position p.
RECURSIVE DigitRun(_, _)
DigitRun(s, p) ==
    IF p <= Len(s) /\ IsDigit(Ch(s, p)) THEN 1 + DigitRun(s, p + 1) ELSE 0

\* Length of the longest run of word characters of s that starts at position p.
RECURSIVE WordRun(_, _)
WordRun(s, p) ==
    IF p <= Len(s) /\ IsWord(Ch(s, p)) THEN 1 + WordRun(s, p + 1) ELSE 0

Max(S) == CHOOSE x \in S : \A y \in S : y <= x

Min(S) == CHOOSE x \in S : \A y \in S : x <= y

(***************************************************************************)
(* The registry of platform specs (Processor.__init__, default specs).     *)
(* Every schema has the shape                                              *)
(*   .*participant-(?P<id>\d+\w?)_source-<source>_key-<tail>               *)
(* with <tail> either  \w+.json  or                                        *)
(*   (?P<timestamp>\d+)-questionnaire-donation.json                        *)
(***************************************************************************)
\* The platforms in the order of the specs dict.
Registry == <<"youtube", "tiktok", "youtube-questionnaire", "tiktok-questionnaire">>

Platforms == {Registry[k] : k \in DOMAIN Registry}

Schema(platform) ==
    CASE platform = "youtube" ->
           [source |-> "YouTube", questionnaire |-> FALSE]
      [] platform = "tiktok" ->
           [source |-> "TikTok", questionnaire |-> FALSE]
      [] platform = "youtube-questionnaire" ->
           [source |-> "YouTube", questionnaire |-> TRUE]
      [] platform = "tiktok-questionnaire" ->
           [source |-> "TikTok", questionnaire |-> TRUE]

NoMatch == [ok |-> FALSE, end |-> 0, id |-> "", timestamp |-> ""]

\* The tail  \w+.json  at position t: \w+ is greedy, so the longest run of word
\* characters that leaves one character and the text json behind it wins.
PlainTail(s, t) ==
    LET w == WordRun(s, t)
        K == {k \in 1..w : /\ t + k <= Len(s)
                           /\ IsDot(Ch(s, t + k))
                           /\ StartsAt(s, t + k + 1, "json")}
    IN  IF K = {} THEN NoMatch
        ELSE [ok |-> TRUE, end |-> t + Max(K) + Len("json"), id |-> "",
              timestamp |-> ""]

\* The tail  (?P<timestamp>\d+)-questionnaire-donation.json  at position t.
QuestionnaireTail(s, t) ==
    LET d == DigitRun(s, t)
        u == t + d + Len("-questionnaire-donation")
    IN  IF /\ d >= 1
           /\ StartsAt(s, t + d, "-questionnaire-donation")
           /\ u <= Len(s)
           /\ IsDot(Ch(s, u))
           /\ StartsAt(s, u + 1, "json")
        THEN [ok |-> TRUE, end |-> u + Len("json"), id |-> "",
              timestamp |-> SubSeq(s, t, t + d - 1)]
        ELSE NoMatch

\* The pattern behind .* with participant- at position p.  The id is the run of
\* digits, with one more word character when the text that follows allows it
\* (\w? is greedy, and gives the character back when the rest fails).
MatchFrom(s, p, sch) ==
    LET a == p + Len("participant-")
        d == DigitRun(s, a)
        lit == "_source-" \o sch.source \o "_key-"
        Rest(n) == IF sch.questionnaire
                   THEN QuestionnaireTail(s, a + n + Len(lit))
                   ELSE PlainTail(s, a + n + Len(lit))
        Ok(n) == /\ StartsAt(s, a + n, lit)
                 /\ Rest(n).ok
        With(n) == [Rest(n) EXCEPT !.id = SubSeq(s, a, a + n - 1)]
    IN  IF ~StartsAt(s, p, "participant-") \/ d = 0 THEN NoMatch
        ELSE IF a + d <= Len(s) /\ IsWord(Ch(s, a + d)) /\ Ok(d + 1)
             THEN With(d + 1)
        ELSE IF Ok(d) THEN With(d)
        ELSE NoMatch

\* regex.match(filename), line 70: the match is anchored at the start of the
\* name, .* is greedy and takes no newline, so the last position of
\* participant- from which the rest matches wins.
Match(s, sch) ==
    LET P == {p \in 1..Len(s) :
                /\ StartsAt(s, p, "participant-")
                /\ MatchFrom(s, p, sch).ok
                /\ \A q \in 1..(p - 1) : IsDot(Ch(s, q))}
    IN  IF P = {} THEN NoMatch ELSE MatchFrom(s, Max(P), sch)

(***************************************************************************)
(* Processor.load: classification of the archive's entry names.            *)
(***************************************************************************)
\* The metadata entry of a match m of platform's regex on name, lines 72-75:
\* the groups of the pattern lowercased, the platform, and match[0], the text
\* the pattern matched.  Only the questionnaire patterns have a timestamp group.
Entry(name, platform, m) ==
    IF Schema(platform).questionnaire
    THEN [id |-> Lower(m.id), timestamp |-> Lower(m.timestamp),
          platform |-> platform, filename |-> SubSeq(name, 1, m.end)]
    ELSE [id |-> Lower(m.id), platform |-> platform,
          filename |-> SubSeq(name, 1, m.end)]

RECURSIVE ClassifyFrom(_, _)
ClassifyFrom(name, k) ==
    IF k > Len(Registry) THEN <<>>
    ELSE LET m == Match(name, Schema(Registry[k]))
         IN  IF m.ok THEN <<Entry(name, Registry[k], m)>>
             ELSE ClassifyFrom(name, k + 1)

\* The loop over the specs without its break: one entry per matching spec.
RECURSIVE ClassifyEverySpec(_, _)
ClassifyEverySpec(name, k) ==
    IF k > Len(Registry) THEN <<>>
    ELSE LET m == Match(name, Schema(Registry[k]))
         IN  (IF m.ok THEN <<Entry(name, Registry[k], m)>> ELSE <<>>)
               \o ClassifyEverySpec(name, k + 1)

ClassifyNoBreak(name) == ClassifyEverySpec(name, 1)

\* The inner loop of load, lines 68-77: what one entry name adds to the
\* metadata list (nothing, or the entry of the first spec that matches).
Classify(name) == ClassifyFrom(name, 1)

(***************************************************************************)
(* Processor.replace: reconciliation against the replacement table.        *)
(* The table is [given, rows]: given is FALSE when no replacement file was *)
(* passed (self.replacement is None); rows maps each id of the index to    *)
(* its row, a function of the column names ("replaces" and one column per  *)
(* platform, read with dtype=object, so the flags are the texts "0", "1"). *)
(***************************************************************************)
NoTable == [given |-> FALSE, rows |-> [k \in {} |-> <<>>]]

\* int() of a flag cell, lines 91 and 105.
ParseInt(v) == CASE v = "0" -> 0 [] v = "1" -> 1

\* r[r.replaces == id][platform].values.astype(int).any(), line 105.
Superseded(m, r) ==
    \E k \in DOMAIN r : r[k]["replaces"] = m.id /\ ParseInt(r[k][m.platform]) # 0

\* Line 105 without the platform's flag: any rule that replaces the id.
ReplaceEntryAnyPlatform(m, r) ==
    IF m.id \in DOMAIN r THEN <<>>
    ELSE IF \E k \in DOMAIN r : r[k]["replaces"] = m.id THEN <<>>
    ELSE <<m>>

\* Lines 91-95 without the continue: an entry whose flag is off is kept.
ReplaceEntryKeepUnflagged(m, r) ==
    IF m.id \in DOMAIN r
    THEN IF ParseInt(r[m.id][m.platform]) = 0 THEN <<m>> ELSE <<>>
    ELSE IF Superseded(m, r) THEN <<>>
    ELSE <<m>>

\* Lines 96-104 followed by new_metadata.append(new_m).
ReplaceEntryAppendRewritten(m, r) ==
    IF m.id \in DOMAIN r
    THEN IF ParseInt(r[m.id][m.platform]) = 0 THEN <<>>
         ELSE <<[m EXCEPT !.id = r[m.id]["replaces"]]>>
    ELSE IF Superseded(m, r) THEN <<>>
    ELSE <<m>>

\* The body of the loop of replace, lines 87-113: what entry m adds to
\* new_metadata.  In the branch of lines 96-104 the copy new_m with the
\* rewritten id is built and printed, and never appended.
ReplaceEntry(m, r) ==
    IF m.id \in DOMAIN r
    THEN IF ParseInt(r[m.id][m.platform]) = 0 THEN <<>>
         ELSE LET new_m == [m EXCEPT !.id = r[m.id]["replaces"]]
              IN  <<>>
    ELSE IF Superseded(m, r) THEN <<>>
    ELSE <<m>>

\* The additions put in front of the list instead of behind it.
EmitFront(list, out) == out \o list

\* new_metadata.append, line 113.
Emit(list, out) == list \o out

\* The list cleared when there is no table.
ReplaceWithoutTableCleared(list) == <<>>

\* The early return of lines 81-82: self.metadata is left as it is.
ReplaceWithoutTable(list) == list

(***************************************************************************)
(* Processor.extract and the four decoders.                                *)
(* A parsed JSON object is a sequence of <<key, value>> pairs in document  *)
(* order, a JSON array is a sequence, a row of a row collection is a       *)
(* record.  A table (DataFrame) is the sequence of its rows.               *)
(***************************************************************************)
EmptyDict == [k \in {} |-> <<>>]

\* pd.DataFrame(rows): one table row per row of the collection.
DataFrame(rows) == rows

\* table[column] = value: the column is set on every row.
SetColumn(table, column, value) ==
    [k \in DOMAIN table |-> (column :> value) @@ table[k]]

\* The list dtypes of line 138.
YoutubeDtypes ==
    <<"youtube_watch_history", "youtube_search_history", "youtube_subscriptions">>

\* Lines 140-142: the tables of one record d of a YouTube document.
RECURSIVE YoutubeRecord(_)
YoutubeRecord(d) ==
    IF d = <<>> THEN <<>>
    ELSE (IF \E k \in DOMAIN YoutubeDtypes : YoutubeDtypes[k] = d[1][1]
          THEN <<<<d[1][1], DataFrame(d[1][2])>>>>
          ELSE <<>>) \o YoutubeRecord(Tail(d))

\* _extract_youtube, lines 136-143.
RECURSIVE ExtractYoutube(_)
ExtractYoutube(doc) ==
    IF doc = <<>> THEN <<>>
    ELSE YoutubeRecord(doc[1]) \o ExtractYoutube(Tail(doc))

\* sub in s, line 149.
Contains(sub, s) == \E p \in 1..Len(s) : StartsAt(s, p, sub)

\* Line 149 with startswith in place of in.
TiktokDtypePrefixOnly(dtype) ==
    IF StartsAt(dtype, 1, "tiktok_video_browsing_history")
    THEN "tiktok_video_browsing_history"
    ELSE dtype

\* Lines 148-150: the name a key of a TikTok document is filed under.
TiktokDtype(dtype) ==
    IF Contains("tiktok_video_browsing_history", dtype)
    THEN "tiktok_video_browsing_history"
    ELSE dtype

\* _extract_tiktok, lines 145-152.
ExtractTiktok(doc) ==
    [k \in DOMAIN doc |-> <<TiktokDtype(doc[k][1]), DataFrame(doc[k][2])>>]

\* pd.DataFrame(data.values(), columns=["answer"]), lines 157 and 163.
Answers(doc) == [k \in DOMAIN doc |-> [answer |-> doc[k][2]]]

\* _extract_youtube_questionnaire, lines 154-158.
ExtractYoutubeQuestionnaire(doc) == <<<<"youtube_questionnaire", Answers(doc)>>>>

\* _extract_tiktok_questionnaire, lines 160-164.
ExtractTiktokQuestionnaire(doc) == <<<<"tiktok_questionnaire", Answers(doc)>>>>

\* self.specs[platform]["processor"](data), line 124.
Decode(platform, doc) ==
    CASE platform = "youtube" -> ExtractYoutube(doc)
      [] platform = "tiktok" -> ExtractTiktok(doc)
      [] platform = "youtube-questionnaire" -> ExtractYoutubeQuestionnaire(doc)
      [] platform = "tiktok-questionnaire" -> ExtractTiktokQuestionnaire(doc)

\* Lines 126-128: the id on every row, and the timestamp when m has one.
Tagged(table, m) ==
    LET t == SetColumn(table, "id", m.id)
    IN  IF "timestamp" \in DOMAIN m THEN SetColumn(t, "timestamp", m.timestamp)
        ELSE t

\* The new table in place of the accumulated one.
ConcatOverwrite(a, b) == b

\* pd.concat([a, b]), line 132.
Concat(a, b) == a \o b

\* Lines 129-132.
Store(d, dtype, table) ==
    IF dtype \notin DOMAIN d THEN (dtype :> table) @@ d
    ELSE [d EXCEPT ![dtype] = Concat(@, table)]

\* The loop of lines 125-132 over the tables of one entry m.
RECURSIVE Accumulate(_, _, _)
Accumulate(d, tbls, m) ==
    IF tbls = <<>> THEN d
    ELSE Accumulate(Store(d, tbls[1][1], Tagged(tbls[1][2], m)), Tail(tbls), m)

\* The archive entries named name.  ZipFile.open finds an entry through the
\* name table of the archive, where the last entry written under a name wins.
Named(name) == {j \in DOMAIN archive : archive[j].name = name}

(***************************************************************************)
(* The inputs: archives (entry names with their parsed JSON documents) and *)
(* replacement tables.                                                     *)
(***************************************************************************)
Name(id, source, key) ==
    "participant-" \o id \o "_source-" \o source \o "_key-" \o key \o ".json"

\* Names that exercise the patterns: plain and questionnaire exports, ids
\* with an upper-case suffix (one of them not ASCII), a directory prefix,
\* text behind the matched part, names no pattern matches, and names two
\* patterns match.
ClassifyNames ==
    { Name("1", "YouTube", "k"),
      Name("2B", "TikTok", "k7"),
      Name("1", "YouTube", "7-questionnaire-donation"),
      Name("3", "TikTok", "42-questionnaire-donation"),
      "d/" \o Name("1", "TikTok", "k"),
      Name("1", "YouTube", "k") \o ".bak",
      "readme.txt",
      Name("x", "YouTube", "k"),
      Name("1", "Vimeo", "k"),
      Name("1", "TikTok", "k") \o "/" \o Name("2", "YouTube", "k"),
      Name("1", "YouTube", "k") \o Name("2", "TikTok", "k"),
      Name("1É", "YouTube", "é") }

\* Names of two participants on the platforms, for the reconciliation.
ReconcileNames ==
    { Name("1", "YouTube", "k"), Name("2", "YouTube", "k"),
      Name("1", "TikTok", "k"),
      Name("1", "YouTube", "7-questionnaire-donation"),
      Name("2", "TikTok", "k") \o ".bak" }

\* Names of one export of each platform, for the extraction.
ExtractNames ==
    { Name("1", "YouTube", "k"), Name("2", "TikTok", "k"),
      Name("1", "YouTube", "7-questionnaire-donation"),
      Name("2", "TikTok", "8-questionnaire-donation"),
      Name("3", "TikTok", "k") \o ".bak" }

YoutubeDocs ==
    { <<>>,
      << <<<<"youtube_watch_history", <<[url |-> "x"]>>>>>> >>,
      << <<<<"youtube_watch_history", <<[url |-> "x"], [url |-> "y"]>>>>,
          <<"youtube_comments", <<[url |-> "c"]>>>>>>,
         <<<<"youtube_search_history", <<[url |-> "s"]>>>>,
          <<"youtube_watch_history", <<[url |-> "z"]>>>>>> >> }

TiktokDocs ==
    { << <<"tiktok_video_browsing_history", <<[url |-> "x"]>>>> >>,
      << <<"tiktok_video_browsing_history_2023", <<[url |-> "x"]>>>>,
         <<"my_tiktok_video_browsing_history", <<[url |-> "y"]>>>>,
         <<"tiktok_video_browsing_histor", <<[url |-> "n"]>>>> >>,
      << <<"tiktok_questionnaire", <<[url |-> "q"]>>>>,
         <<"tiktok_favorite_videos", <<>>>> >> }

QuestionnaireDocs ==
    { << <<"q1", "a">> >>,
      << <<"q1", "a">>, <<"q2", "b">> >> }

\* One document per name, where the documents are not what is looked at.
DefaultDoc(name) ==
    LET c == Classify(name)
    IN  IF c = <<>> THEN <<>>
        ELSE IF c[1].platform = "youtube"
             THEN << <<<<"youtube_watch_history", <<[url |-> "x"]>>>>>> >>
        ELSE IF c[1].platform = "tiktok"
             THEN << <<"tiktok_video_browsing_history", <<[url |-> "x"]>>>> >>
        ELSE << <<"q1", "a">> >>

\* The documents an entry of that name holds: an export of the platform the
\* name belongs to, or a file that is no export.  An entry that extract never
\* opens under its own name holds one document.
Docs(name) ==
    LET c == Classify(name)
    IN  IF c = <<>> THEN {<<>>}
        ELSE IF c[1].filename # name THEN {DefaultDoc(name)}
        ELSE IF c[1].platform = "youtube" THEN YoutubeDocs
        ELSE IF c[1].platform = "tiktok" THEN TiktokDocs
        ELSE QuestionnaireDocs

\* The sequences of at most n elements of S.
SeqUpTo(S, n) == UNION {[1..len -> S] : len \in 0..n}

\* The flag columns of a rule: off everywhere, on everywhere, on for the
\* YouTube platforms only.
FlagRows ==
    { [c \in Platforms |-> "0"],
      [c \in Platforms |-> "1"],
      [c \in Platforms |-> IF Schema(c).source = "YouTube" THEN "1" ELSE "0"] }

Ids == {"1", "2"}

Rules == {("replaces" :> id) @@ f : id \in Ids, f \in FlagRows}

\* The replacement tables over Ids, and no table.
Tables ==
    {NoTable} \cup
    {[given |-> TRUE, rows |-> r] : r \in UNION {[K -> Rules] : K \in SUBSET Ids}}

\* A table with one rule: participant 1 replaces participant 2 everywhere.
OneRule ==
    [given |-> TRUE,
     rows |-> ("1" :> (("replaces" :> "2") @@ [c \in Platforms |-> "1"]))]

\* What download_from_azure can leave in data.zip: the blobs of the
\* container, here none, or one YouTube export with an empty list.
RemoteArchives ==
    { <<>>,
      <<[name |-> Name("1", "YouTube", "k"), body |-> <<>>]>> }

Start ==
    /\ metadata = <<>>
    /\ new_metadata = <<>>
    /\ data = <<>>
    /\ tables = <<>>
    /\ dfs = EmptyDict
    /\ pc = "load"
    /\ i = 1
    /\ calls = 0
    /\ fault = ""

InitClassify ==
    /\ archive \in SeqUpTo({[name |-> n, body |-> DefaultDoc(n)] : n \in ClassifyNames},
                           MaxArchive)
    /\ replacement = NoTable
    /\ Start

InitReconcile ==
    /\ archive \in SeqUpTo({[name |-> n, body |-> DefaultDoc(n)] : n \in ReconcileNames},
                           MaxArchive)
    /\ replacement \in Tables
    /\ Start

InitExtract ==
    /\ archive \in SeqUpTo(UNION {{[name |-> n, body |-> b] : b \in Docs(n)} :
                                     n \in ExtractNames},
                           MaxArchive)
    /\ replacement \in {NoTable, OneRule}
    /\ Start

\* Processor.__init__ up to line 58: the specs and the table are in place,
\* load() is about to scan the archive.
Init == InitClassify \/ InitReconcile \/ InitExtract

(***************************************************************************)
(* The steps of the program.                                               *)
(***************************************************************************)
\* One turn of the loop of load, lines 67-77.
LoadStep ==
    /\ pc = "load"
    /\ i <= Len(archive)
    /\ metadata' = metadata \o Classify(archive[i].name)
    /\ i' = i + 1
    /\ UNCHANGED <<archive, replacement, new_metadata, data, tables, dfs, pc,
                   calls, fault>>

\* load returns, line 78, and __init__ keeps the list, line 60.
LoadReturn ==
    /\ pc = "load"
    /\ i > Len(archive)
    /\ pc' = "init"
    /\ UNCHANGED <<archive, replacement, metadata, new_metadata, data, tables,
                   dfs, i, calls, fault>>

\* replace() is entered, lines 80-85: from __init__ (line 61), or by the
\* caller on the constructed processor.
ReplaceCall ==
    /\ pc \in {"init", "ready"}
    /\ calls < MaxCalls
    /\ IF ~replacement.given
       THEN /\ metadata' = ReplaceWithoutTable(metadata)
            /\ pc' = "ready"
            /\ calls' = calls + 1
            /\ UNCHANGED <<new_metadata, i>>
       ELSE /\ new_metadata' = <<>>
            /\ i' = 1
            /\ pc' = "replace"
            /\ UNCHANGED <<metadata, calls>>
    /\ UNCHANGED <<archive, replacement, data, tables, dfs, fault>>

\* One turn of the loop of replace, lines 86-113.
ReplaceStep ==
    /\ pc = "replace"
    /\ i <= Len(metadata)
    /\ new_metadata' = Emit(new_metadata, ReplaceEntry(metadata[i], replacement.rows))
    /\ i' = i + 1
    /\ UNCHANGED <<archive, replacement, metadata, data, tables, dfs, pc, calls,
                   fault>>

\* self.metadata = new_metadata, line 115.
ReplaceReturn ==
    /\ pc = "replace"
    /\ i > Len(metadata)
    /\ metadata' = new_metadata
    /\ pc' = "ready"
    /\ calls' = calls + 1
    /\ UNCHANGED <<archive, replacement, new_metadata, data, tables, dfs, i,
                   fault>>

\* download_from_azure, lines 166-183, called between the construction of
\* the processor and extract(): data.zip is written anew (line 175) from the
\* blobs of the container, under the metadata the processor holds.
DownloadFromAzure ==
    /\ pc = "ready"
    /\ archive' \in RemoteArchives
    /\ UNCHANGED <<replacement, metadata, new_metadata, data, tables, dfs, pc,
                   i, calls, fault>>

\* extract() is entered, lines 117-120.
ExtractCall ==
    /\ pc = "ready"
    /\ dfs' = EmptyDict
    /\ i' = 1
    /\ pc' = "extract"
    /\ UNCHANGED <<archive, replacement, metadata, new_metadata, data, tables,
                   calls, fault>>

\* One turn of the loop of extract, lines 121-132: the entry is opened by the
\* recorded filename, its document decoded, its tables accumulated.
ExtractStep ==
    /\ pc = "extract"
    /\ i <= Len(metadata)
    /\ Named(metadata[i].filename) # {}
    /\ LET m == metadata[i]
           doc == archive[Max(Named(m.filename))].body
       IN  /\ data' = doc
           /\ tables' = Decode(m.platform, doc)
           /\ dfs' = Accumulate(dfs, Decode(m.platform, doc), m)
    /\ i' = i + 1
    /\ UNCHANGED <<archive, replacement, metadata, new_metadata, pc, calls, fault>>

\* zip_ref.open, line 122, raises KeyError: the archive has no entry of the
\* recorded filename.
ExtractFault ==
    /\ pc = "extract"
    /\ i <= Len(metadata)
    /\ Named(metadata[i].filename) = {}
    /\ pc' = "fault"
    /\ fault' = "KeyError"
    /\ UNCHANGED <<archive, replacement, metadata, new_metadata, data, tables,
                   dfs, i, calls>>

\* extract returns dfs, line 133.
ExtractReturn ==
    /\ pc = "extract"
    /\ i > Len(metadata)
    /\ pc' = "done"
    /\ UNCHANGED <<archive, replacement, metadata, new_metadata, data, tables,
                   dfs, i, calls, fault>>

Next ==
    \/ LoadStep
    \/ LoadReturn
    \/ ReplaceCall
    \/ ReplaceStep
    \/ ReplaceReturn
    \/ DownloadFromAzure
    \/ ExtractCall
    \/ ExtractStep
    \/ ExtractFault
    \/ ExtractReturn

Spec == Init /\ [][Next]_vars

(***************************************************************************)
(* Properties.                                                             *)
(***************************************************************************)
Rows == replacement.rows

\* The loop of replace has gone through the whole list; line 115 is next.
ReplaceLoopDone == pc = "replace" /\ i > Len(metadata)

\* Entry a is entry b up to its id: same platform, filename and timestamp.
SameFile(a, b) ==
    /\ a.platform = b.platform
    /\ a.filename = b.filename
    /\ DOMAIN a = DOMAIN b
    /\ "timestamp" \in DOMAIN a => a.timestamp = b.timestamp

\* The entry's id is a key of the table and the rule's flag for the entry's
\* platform is the given cell.
Flagged(m, cell) == m.id \in DOMAIN Rows /\ Rows[m.id][m.platform] = cell

\* Some rule replaces the entry's id and is on for the entry's platform.
ReplacedByRule(m) ==
    \E k \in DOMAIN Rows : Rows[k]["replaces"] = m.id /\ Rows[k][m.platform] = "1"

\* C1: in the reconciliation with a table, every entry whose id is a key of the
\* table and whose rule is on for the entry's platform is kept in the
\* reconciled list, with the same platform, filename and timestamp and with
\* its id rewritten to the rule's replaces value.
C1_RewrittenEntryKept ==
    pc = "replace" =>
        \A j \in 1..(i - 1) :
            Flagged(metadata[j], "1") =>
                \E n \in DOMAIN new_metadata :
                    /\ SameFile(new_metadata[n], metadata[j])
                    /\ new_metadata[n].id = Rows[metadata[j].id]["replaces"]

\* C2: an entry whose id is no key of the table is absent from the reconciled
\* list when some rule replaces its id and is on for its platform, and is
\* present unchanged when no rule does; the table alone decides.
C2_SupersededDroppedElseKept ==
    pc = "replace" =>
        \A j \in 1..(i - 1) :
            metadata[j].id \notin DOMAIN Rows =>
                IF ReplacedByRule(metadata[j])
                THEN \A n \in DOMAIN new_metadata : new_metadata[n] # metadata[j]
                ELSE \E n \in DOMAIN new_metadata : new_metadata[n] = metadata[j]

\* Both cases of C2 have happened in one pass, and no entry of the batch
\* carries the id of a rule: the replacing entry is not in the batch.
C2_Witness ==
    /\ ReplaceLoopDone
    /\ \E j \in DOMAIN metadata :
           metadata[j].id \notin DOMAIN Rows /\ ReplacedByRule(metadata[j])
    /\ \E j \in DOMAIN metadata :
           metadata[j].id \notin DOMAIN Rows /\ ~ReplacedByRule(metadata[j])
    /\ \A j \in DOMAIN metadata : metadata[j].id \notin DOMAIN Rows

\* C3: for a rule whose flag for a platform is off, no entry of the
\* reconciled list comes from an input entry with the rule's id and that
\* platform.
C3_UnflaggedDropped ==
    pc = "replace" =>
        \A j \in 1..(i - 1) :
            Flagged(metadata[j], "0") =>
                \A n \in DOMAIN new_metadata :
                    ~SameFile(new_metadata[n], metadata[j])

\* A pass has gone through an entry of a rule that is off for its platform,
\* and has kept another entry.
C3_Witness ==
    /\ ReplaceLoopDone
    /\ \E j \in DOMAIN metadata : Flagged(metadata[j], "0")
    /\ new_metadata # <<>>

\* C4: a second pass of the reconciliation over its own output, with the same
\* table, yields that output again; and after one pass no entry of the list
\* has an id that is a key of the table.
C4_Idempotent ==
    /\ (ReplaceLoopDone /\ calls >= 1) => new_metadata = metadata
    /\ (replacement.given /\ calls >= 1) =>
           \A n \in DOMAIN metadata : metadata[n].id \notin DOMAIN Rows

\* A second pass is through, over a list from which the first pass dropped
\* an entry and kept another.
C4_Witness ==
    /\ ReplaceLoopDone
    /\ calls >= 1
    /\ \A j \in DOMAIN archive : Classify(archive[j].name) # <<>>
    /\ Len(metadata) < Len(archive)
    /\ metadata # <<>>
    /\ DOMAIN Rows # {}

\* C5: every metadata entry records as its filename the name of an archive
\* entry, so that the open by name of extract never fails for want of the
\* entry.
C5_OpenByNameFindsEntry ==
    /\ \A n \in DOMAIN metadata : Named(metadata[n].filename) # {}
    /\ fault # "KeyError"

\* out is in, filtered: an increasing choice of positions of in gives the
\* entries of out up to their ids.
IsFilterOf(out, in) ==
    \E f \in [DOMAIN out -> DOMAIN in] :
        /\ \A a, b \in DOMAIN out : a < b => f[a] < f[b]
        /\ \A a \in DOMAIN out : SameFile(out[a], in[f[a]])

\* C6: the reconciliation is an order-preserving filter and rewrite: the
\* reconciled list is no longer than the input, each of its entries is a
\* distinct input entry up to the id, and the order is the input's.
C6_OrderPreservingFilter ==
    pc = "replace" =>
        /\ Len(new_metadata) <= i - 1
        /\ IsFilterOf(new_metadata, SubSeq(metadata, 1, i - 1))

\* A pass with a table of rules has kept two different entries.
C6_Witness ==
    /\ ReplaceLoopDone
    /\ DOMAIN Rows # {}
    /\ Len(new_metadata) >= 2
    /\ new_metadata[1] # new_metadata[2]

\* The specs of the registry, by position, whose pattern matches the name.
MatchingSpecs(name) ==
    {k \in DOMAIN Registry : Match(name, Schema(Registry[k])).ok}

\* C7: the classification yields, in archive order, exactly one metadata
\* entry for each archive entry that some pattern matches, tagged with the
\* first matching spec of the registry, and none for the other entries.
C7_FirstMatchWins ==
    pc = "load" =>
        LET specs == [j \in 1..(i - 1) |-> MatchingSpecs(archive[j].name)]
            hits == {j \in 1..(i - 1) : specs[j] # {}}
        IN  /\ Len(metadata) = Cardinality(hits)
            /\ \A n \in DOMAIN metadata :
                   \E j \in hits :
                       /\ Cardinality({h \in hits : h <= j}) = n
                       /\ metadata[n].platform = Registry[Min(specs[j])]
                       /\ StartsAt(archive[j].name, 1, metadata[n].filename)

\* The scan is through an archive with an entry that two patterns match and
\* an entry that none matches.
C7_Witness ==
    /\ pc = "load"
    /\ i > Len(archive)
    /\ \E j \in DOMAIN archive : Cardinality(MatchingSpecs(archive[j].name)) >= 2
    /\ \E j \in DOMAIN archive : MatchingSpecs(archive[j].name) = {}

\* The rows a decoder's tables of the name dtype get from entry m: the rows
\* of the document, each with m's id, and with m's timestamp when m has one.
RECURSIVE RowsOf(_, _, _)
RowsOf(dtype, tbls, m) ==
    IF tbls = <<>> THEN <<>>
    ELSE (IF tbls[1][1] = dtype
          THEN [k \in DOMAIN tbls[1][2] |->
                   IF "timestamp" \in DOMAIN m
                   THEN [c \in DOMAIN tbls[1][2][k] \cup {"id", "timestamp"} |->
                            IF c = "id" THEN m.id
                            ELSE IF c = "timestamp" THEN m.timestamp
                            ELSE tbls[1][2][k][c]]
                   ELSE [c \in DOMAIN tbls[1][2][k] \cup {"id"} |->
                            IF c = "id" THEN m.id ELSE tbls[1][2][k][c]]]
          ELSE <<>>) \o RowsOf(dtype, Tail(tbls), m)

\* What the decoder of entry m emits for the document m's filename names.
Emitted(m) == Decode(m.platform, archive[Max(Named(m.filename))].body)

RECURSIVE ExpectedRows(_, _)
ExpectedRows(dtype, n) ==
    IF n = 0 THEN <<>>
    ELSE ExpectedRows(dtype, n - 1) \o RowsOf(dtype, Emitted(metadata[n]), metadata[n])

\* C8: the output has one table per data-type name the decoders emit, and the
\* table is the concatenation, in metadata-list order, of the row collections
\* emitted under that name, each row with the id of its entry and with the
\* entry's timestamp exactly when the entry has one.
C8_TablesConcatenateInOrder ==
    pc \in {"extract", "done"} =>
        /\ DOMAIN dfs = UNION {{Emitted(metadata[n])[k][1] :
                                   k \in DOMAIN Emitted(metadata[n])} :
                               n \in 1..(i - 1)}
        /\ \A dtype \in DOMAIN dfs : dfs[dtype] = ExpectedRows(dtype, i - 1)

\* The extraction is through, and a table holds rows of two entries.
C8_Witness ==
    /\ pc = "done"
    /\ Len(metadata) >= 2
    /\ \E dtype \in DOMAIN dfs :
           /\ RowsOf(dtype, Emitted(metadata[1]), metadata[1]) # <<>>
           /\ RowsOf(dtype, Emitted(metadata[2]), metadata[2]) # <<>>
           /\ Len(dfs[dtype]) >= 2

\* The key holds the marker text at some position.
HasMarker(key) ==
    \E p \in 1..Len(key) :
        /\ p + Len("tiktok_video_browsing_history") - 1 <= Len(key)
        /\ SubSeq(key, p, p + Len("tiktok_video_browsing_history") - 1)
               = "tiktok_video_browsing_history"

\* The last entry extract has gone through is a TikTok export.
TiktokDecoded ==
    /\ pc \in {"extract", "done"}
    /\ i > 1
    /\ metadata[i - 1].platform = "tiktok"

\* C9: the TikTok decoder emits one pair per key of the document, in key
\* order, under the canonical name tiktok_video_browsing_history when the key
\* holds that text anywhere, and under the key itself otherwise.
C9_TiktokCanonicalName ==
    TiktokDecoded =>
        /\ Len(tables) = Len(data)
        /\ \A k \in DOMAIN data :
               /\ tables[k][1] = IF HasMarker(data[k][1])
                                 THEN "tiktok_video_browsing_history"
                                 ELSE data[k][1]
               /\ tables[k][2] = data[k][2]

\* A TikTok document was decoded in which two variant keys, one with text in
\* front of the marker, land under the canonical name, and a third key does not.
C9_Witness ==
    /\ TiktokDecoded
    /\ \E a, b, c \in DOMAIN data :
           /\ a # b
           /\ HasMarker(data[a][1]) /\ HasMarker(data[b][1])
           /\ ~StartsAt(data[b][1], 1, "tiktok_video_browsing_history")
           /\ tables[a][1] = tables[b][1]
           /\ ~HasMarker(data[c][1])

\* C10: without a replacement table, replace() leaves the metadata list as
\* load() produced it: once the scan is over the list never changes.
C10_NoTableIdentity ==
    [][(~replacement.given /\ pc # "load") => metadata' = metadata]_vars

\* Without a table, replace() has returned on a list that has entries.
C10_Witness ==
    /\ ~replacement.given
    /\ pc = "ready"
    /\ calls >= 1
    /\ metadata # <<>>

====
